---- MODULE Spec2Model ----
(***************************************************************************)
(* A model of deep_vars: the process-wide handler registry of class        *)
(* DeepVars, its bookmark store, the handler instance cache and the        *)
(* depth-bounded traversal DeepVars.deep_vars with the built-in handlers.  *)
(*                                                                         *)
(* Python dict objects that the code mutates in place or shares by         *)
(* reference (cls._handlers and the snapshots kept in cls._bookmarks) live *)
(* in a small heap, `dicts`, so that copying and aliasing are different    *)
(* things in the model as they are in the program.                         *)
(***************************************************************************)
EXTENDS Integers, Sequences, FiniteSets, TLC

\* ------------------------------------------------------------------ bounds
\* The bookmark store never grows beyond this many entries in the model.
MaxBookmarks == 3
\* At most this many register* calls are made in one behaviour of SpecRegister.
MaxRegister == 2
\* The largest max_depth deep_vars is called with.
MaxDepth == 3

\* ------------------------------------------------------------- vocabulary
\* Python's None, as passed for `name` and `delete`.
None == "None"

DeepVarsHandler == "DeepVarsHandler"
DeepVarsHandlerShow == "DeepVarsHandlerShow"
DeepVarsHandlerHide == "DeepVarsHandlerHide"
DeepVarsHandlerCallable == "DeepVarsHandlerCallable"
DeepVarsHandlerLoop == "DeepVarsHandlerLoop"
DeepVarsHandlerLoopDict == "DeepVarsHandlerLoopDict"
DeepVarsHandlerProcess == "DeepVarsHandlerProcess"

\* A registry key is a string tag or a concrete type (HandlerTypesT).
StrKey(s) == <<"str", s>>
TypeKey(t) == <<"type", t>>
\* isinstance(key, str)
IsStrKey(key) == key[1] = "str"

\* The built-in registry, DeepVars._handlers as the class body creates it.
DefaultHandlers ==
    (StrKey("magic") :> DeepVarsHandlerHide)
    @@ (StrKey("private") :> DeepVarsHandlerHide)
    @@ (StrKey("callable") :> DeepVarsHandlerCallable)
    @@ (TypeKey("int") :> DeepVarsHandlerShow)
    @@ (TypeKey("float") :> DeepVarsHandlerShow)
    @@ (TypeKey("str") :> DeepVarsHandlerShow)
    @@ (TypeKey("set") :> DeepVarsHandlerLoop)
    @@ (TypeKey("list") :> DeepVarsHandlerLoop)
    @@ (TypeKey("tuple") :> DeepVarsHandlerLoop)
    @@ (TypeKey("dict") :> DeepVarsHandlerLoopDict)

\* Names uuid.uuid4() can produce, and names callers make up.
UuidNames == {"uuid-0", "uuid-1", "uuid-2"}
UserNames == {"name"}
\* The name module initialisation got from its own bookmark_handlers() call.
DEFAULT_BOOKMARK == "uuid-0"

\* -------------------------------------------------------------- the state
VARIABLES
    dicts,           \* heap of dict objects: address -> registry mapping
    bookmarks,       \* cls._bookmarks: insertion-ordered, name -> address
    handlers_cache,  \* cls._handlers_cache: the handler types instantiated
    special_type_detectors,  \* cls.special_type_detectors, in list order
    taken,           \* history: name -> the registry when it was bookmarked
    nregister,       \* history: number of register* calls made
    last             \* the last public call, its arguments and its outcome

vars == <<dicts, bookmarks, handlers_cache, special_type_detectors, taken,
          nregister, last>>

\* What the registry and bookmark operations never touch.
traversal == <<handlers_cache, special_type_detectors>>

\* The address of the dict object bound to cls._handlers (never rebound).
HANDLERS == 0
\* The live registry.
handlers == dicts[HANDLERS]

\* ---------------------------------------------------------- dict helpers
EmptyDict == [k \in {} |-> DeepVarsHandler]

\* dict.update(other) on mapping values: other's entries win.
DictUpdate(d, other) ==
    [k \in (DOMAIN d) \union (DOMAIN other) |->
        IF k \in DOMAIN other THEN other[k] ELSE d[k]]

\* Position of `name` in the insertion-ordered store, 0 when absent.
IndexOf(bm, name) ==
    IF \E i \in 1..Len(bm) : bm[i].name = name
    THEN CHOOSE i \in 1..Len(bm) : bm[i].name = name
    ELSE 0

BookmarkNames(bm) == {bm[i].name : i \in 1..Len(bm)}

\* The store without its entry at position idx; the others keep their order.
RemoveAt(bm, idx) ==
    [i \in 1..(Len(bm) - 1) |-> IF i < idx THEN bm[i] ELSE bm[i + 1]]

\* dict.pop(name, None) on the store.
PopName(bm, name) ==
    IF IndexOf(bm, name) = 0 THEN bm ELSE RemoveAt(bm, IndexOf(bm, name))

\* Addresses are only ever compared for identity, so the heap is kept in a
\* canonical form: the snapshot of the i-th bookmark lives at address i
\* (unless it is the cls._handlers object itself), and a dict no bookmark
\* refers to is freed, as reference counting does.
CanonRef(bm, i) == IF bm[i].ref = HANDLERS THEN HANDLERS ELSE i

CanonBookmarks(bm) ==
    [i \in 1..Len(bm) |-> [name |-> bm[i].name, ref |-> CanonRef(bm, i)]]

CanonDicts(ds, bm) ==
    [r \in {HANDLERS} \union {CanonRef(bm, i) : i \in 1..Len(bm)} |->
        IF r = HANDLERS THEN ds[HANDLERS] ELSE ds[bm[r].ref]]

\* The address a newly created dict object gets: any free one.
NewRef(ds) == CHOOSE r \in 1..(Cardinality(DOMAIN ds) + 1) : r \notin DOMAIN ds

\* Mutation of copy: the snapshot is the dict object itself, not a copy.
copy_Aliased(ds, src) == [ref |-> src, heap |-> ds]

\* copy(d): a new dict object with the entries of the one at `src`.
copy(ds, src) ==
    [ref |-> NewRef(ds), heap |-> (NewRef(ds) :> ds[src]) @@ ds]

\* ------------------------------------------------------ traversal results
\* A field name or dict key as the classifier sees it: `str` is
\* isinstance(name, str), `chars` its characters. NoName is Python's None.
Nm(chars) == [str |-> TRUE, chars |-> chars]
NoName == [str |-> FALSE, chars |-> <<>>]

\* What deep_vars returns: the identical object it was given (by address in
\* Objects), a newly built dict, list, tuple or set, or a new string.
Obj(id) == [k |-> "obj", id |-> id, text |-> "", items |-> <<>>]
Built(kind, items) == [k |-> kind, id |-> "None", text |-> "", items |-> items]
Str(text) == [k |-> "str", id |-> "None", text |-> text, items |-> <<>>]
\* An exception on its way up instead of a value.
Raised(exc) == [k |-> "raise", id |-> "None", text |-> exc, items |-> <<>>]
IsRaised(r) == r.k = "raise"

\* ------------------------------------------------------- call bookkeeping
\* What `last` holds before any call was made.
NoCall ==
    [op |-> "init", name |-> None, delete |-> None, value |-> None,
     keys |-> {}, skip |-> {}, outcome |-> "ok", removed |-> None,
     nbefore |-> 0, ret_name |-> None,
     obj |-> "None", obj_name |-> NoName, max_depth |-> 0,
     ret |-> Obj("None"), ncalls |-> 0, dispatched |-> {},
     depths |-> {}, delegated |-> {}]

\* ------------------------------------------------------------------- Init
\* The state once the module is imported: the class body has run and
\* DEFAULT_BOOKMARK = DeepVars.bookmark_handlers() has taken the snapshot.
Init ==
    /\ dicts = (HANDLERS :> DefaultHandlers) @@ (1 :> DefaultHandlers)
    /\ bookmarks = <<[name |-> DEFAULT_BOOKMARK, ref |-> 1]>>
    /\ handlers_cache = {}
    /\ special_type_detectors = <<>>
    /\ taken = (DEFAULT_BOOKMARK :> DefaultHandlers)
    /\ nregister = 0
    /\ last = NoCall

\* ------------------------------------------------- bookmark_handlers(name)
\* `uuid` is what uuid.uuid4() returns on the iteration that leaves the loop.
bookmark_handlers(name, uuid) ==
    LET nm == IF name = None THEN uuid ELSE name
        popped == IF name = None THEN bookmarks ELSE PopName(bookmarks, name)
        c == copy(dicts, HANDLERS)
        bm == Append(popped, [name |-> nm, ref |-> c.ref])
    IN  /\ name = None => uuid \notin BookmarkNames(bookmarks)
        /\ Len(popped) < MaxBookmarks
        /\ bookmarks' = CanonBookmarks(bm)
        /\ dicts' = CanonDicts(c.heap, bm)
        /\ taken' = [n \in BookmarkNames(bm) |->
                        IF n = nm THEN handlers ELSE taken[n]]
        /\ last' = [NoCall EXCEPT !.op = "bookmark_handlers", !.name = name,
                                  !.nbefore = Len(bookmarks),
                                  !.ret_name = nm]
        /\ UNCHANGED <<traversal, nregister>>

\* ------------------------------------------- reset_handlers(name, delete)
\* Mutation of DeletePolicy: the size test is `< 1` instead of `<= 1`.
DeletePolicy_SizeOffByOne(n, name, delete) ==
    IF n < 1 THEN FALSE
    ELSE IF delete = None THEN name = None
    ELSE delete = "True"

\* Mutation of DeletePolicy: the default deletes when a name is given.
DeletePolicy_DefaultInverted(n, name, delete) ==
    IF n <= 1 THEN FALSE
    ELSE IF delete = None THEN name /= None
    ELSE delete = "True"

\* The value of the local `delete` after lines 106-109.
DeletePolicy(n, name, delete) ==
    IF n <= 1 THEN FALSE
    ELSE IF delete = None THEN name = None
    ELSE delete = "True"

\* Mutation of Selected: a name that is missing falls back to the newest.
Selected_FallsBack(bm, name) ==
    IF name = None \/ IndexOf(bm, name) = 0 THEN Len(bm) ELSE IndexOf(bm, name)

\* Position of the bookmark the call uses, 0 when the lookup raises.
Selected(bm, name) ==
    IF name = None THEN Len(bm) ELSE IndexOf(bm, name)

\* cls._handlers.clear(); cls._handlers.update(bookmark), on the heap.
ClearAndUpdate(ds, ref) ==
    LET cleared == [ds EXCEPT ![HANDLERS] = EmptyDict]
    IN  [cleared EXCEPT ![HANDLERS] = DictUpdate(@, cleared[ref])]

\* The exception an unsuccessful lookup raises.
LookupError(name) == IF name = None THEN "StopIteration" ELSE "KeyError"

reset_handlers(name, delete) ==
    LET del == DeletePolicy(Len(bookmarks), name, delete)
        idx == Selected(bookmarks, name)
        call == [NoCall EXCEPT !.op = "reset_handlers", !.name = name,
                               !.delete = delete,
                               !.nbefore = Len(bookmarks)]
    IN  IF idx = 0
        THEN /\ last' = [call EXCEPT !.outcome = LookupError(name)]
             /\ UNCHANGED <<dicts, bookmarks, traversal, taken,
                            nregister>>
        ELSE LET bm == IF del THEN RemoveAt(bookmarks, idx) ELSE bookmarks
             IN  /\ bookmarks' = CanonBookmarks(bm)
                 /\ dicts' = CanonDicts(
                        ClearAndUpdate(dicts, bookmarks[idx].ref), bm)
                 /\ taken' = [n \in BookmarkNames(bm) |-> taken[n]]
                 /\ last' = [call EXCEPT
                        !.removed = IF del THEN bookmarks[idx].name ELSE None]
                 /\ UNCHANGED <<traversal, nregister>>

\* ------------------------------------------------------- clear_bookmarks()
\* Mutation of KeepOldest: the newest entry is kept.
KeepOldest_Newest(bm) == <<bm[Len(bm)]>>

\* The store clear_bookmarks leaves: the first entry alone.
KeepOldest(bm) == <<bm[1]>>

clear_bookmarks ==
    LET call == [NoCall EXCEPT !.op = "clear_bookmarks",
                               !.nbefore = Len(bookmarks)]
    IN  IF Len(bookmarks) = 0
        THEN /\ last' = [call EXCEPT !.outcome = "StopIteration"]
             /\ UNCHANGED <<dicts, bookmarks, traversal, taken,
                            nregister>>
        ELSE LET bm == KeepOldest(bookmarks)
             IN  /\ bookmarks' = CanonBookmarks(bm)
                 /\ dicts' = CanonDicts(dicts, bm)
                 /\ taken' = [n \in BookmarkNames(bm) |-> taken[n]]
                 /\ last' = call
                 /\ UNCHANGED <<traversal, nregister>>

\* -------------------------------------------- set_handlers(value, *handlers)
\* {handler: value for handler in handlers}
Assignments(value, keys) == [k \in keys |-> value]

set_handlers_as(op, value, keys, skip) ==
    LET call == [NoCall EXCEPT !.op = op, !.value = value, !.keys = keys,
                               !.skip = skip]
    IN  /\ IF keys = {}
           THEN /\ last' = [call EXCEPT !.outcome = "ValueError"]
                /\ UNCHANGED dicts
           ELSE /\ last' = call
                /\ dicts' = [dicts EXCEPT ![HANDLERS] =
                                DictUpdate(@, Assignments(value, keys))]
        /\ UNCHANGED <<bookmarks, traversal, taken>>

set_handlers(value, keys) == set_handlers_as("set_handlers", value, keys, {})

\* Mutation of SpecialKeys: the isinstance(name, str) test is missing.
SpecialKeys_AnyType(d, skip) == {k \in DOMAIN d : k[2] \notin skip}

\* The keys set_special_handlers passes on: registered string keys not in skip.
SpecialKeys(d, skip) == {k \in DOMAIN d : IsStrKey(k) /\ k[2] \notin skip}

set_special_handlers(value, skip) ==
    set_handlers_as("set_special_handlers", value,
                    SpecialKeys(handlers, skip), skip)

\* The keys set_all_handlers passes on.
AllKeys(d) == DOMAIN d

set_all_handlers(value) ==
    set_handlers_as("set_all_handlers", value, AllKeys(handlers), {})

\* ------------------------------------------------------------ input sets
NameArgs == {None} \union UuidNames \union UserNames
DeleteArgs == {None, "True", "False"}

\* ------------------------------------- the bookmark machine (Spec)
\* Every bookmark operation with every argument, and two registrations that
\* make three different registries (two of them with a key the defaults lack).
Next ==
    \/ \E name \in NameArgs, uuid \in UuidNames : bookmark_handlers(name, uuid)
    \/ \E name \in NameArgs, delete \in DeleteArgs : reset_handlers(name, delete)
    \/ clear_bookmarks
    \/ /\ set_handlers(DeepVarsHandlerHide,
                       {StrKey("private"), TypeKey("DataObject")})
       /\ UNCHANGED nregister
    \/ /\ set_handlers(DeepVarsHandlerShow,
                       {StrKey("private"), TypeKey("DataObject")})
       /\ UNCHANGED nregister

Spec == Init /\ [][Next]_vars

\* ----------------------------------- the registration machine (SpecRegister)
RegisterValues ==
    {DeepVarsHandler, DeepVarsHandlerHide, DeepVarsHandlerShow}
RegisterKeySets ==
    { {},
      {TypeKey("int")},
      {StrKey("private"), TypeKey("DataObject")},
      {StrKey("specially_detected")} }
SkipSets == { {}, {"callable"}, {"magic", "private", "callable"} }

Counted == nregister < MaxRegister /\ nregister' = nregister + 1

NextRegister ==
    \/ \E value \in RegisterValues, keys \in RegisterKeySets :
           set_handlers(value, keys) /\ Counted
    \/ \E value \in RegisterValues, skip \in SkipSets :
           set_special_handlers(value, skip) /\ Counted
    \/ \E value \in RegisterValues : set_all_handlers(value) /\ Counted

SpecRegister == Init /\ [][NextRegister]_vars

\* =================================================================
\* The objects deep_vars is applied to
\* =================================================================
\* Attribute names and dict keys, character by character.
n_class == Nm(<<"_", "_", "c", "l", "a", "s", "s", "_", "_">>)
n_init == Nm(<<"_", "_", "i", "n", "i", "t", "_", "_">>)
n_keys == Nm(<<"_", "k", "e", "y", "s">>)
n_private_class_var == Nm(<<"_", "p", "c", "v">>)
n_public_class_var == Nm(<<"p", "c", "v">>)
n_a == Nm(<<"a">>)
n_b == Nm(<<"b">>)
n_c == Nm(<<"c">>)
n__a == Nm(<<"_", "a">>)
n_real == Nm(<<"r", "e", "a", "l">>)
n_upper == Nm(<<"u", "p", "p", "e", "r">>)
n_count == Nm(<<"c", "o", "u", "n", "t">>)
n_copy == Nm(<<"c", "o", "p", "y">>)
n_specially_detected == Nm(<<"s", "d">>)
n_non_existing_attribute == Nm(<<"n", "e", "a">>)

\* getattr(obj, name) raises AttributeError: no object behind the name.
Missing == "<AttributeError>"

Attr(name, ref) == [name |-> name, ref |-> ref]
Item(key, keyref, ref) == [key |-> key, keyref |-> keyref, ref |-> ref]
Elem(ref) == Item(NoName, "None", ref)

\* An object of the given type with nothing but its class: not callable,
\* hashable, not iterable, dir() working.
Plain(type) ==
    [type |-> type, callable |-> FALSE, hashable |-> TRUE,
     dir_raises |-> FALSE, attrs |-> <<Attr(n_class, type)>>,
     iterable |-> FALSE, elems |-> <<>>, signature |-> "", has_name |-> FALSE]

\* A class object: callable, an instance of type.
Class == [Plain("type") EXCEPT !.callable = TRUE, !.has_name = TRUE,
                               !.signature = "ValueError"]

IntObj(self) ==
    [Plain("int") EXCEPT !.attrs = <<Attr(n_class, "int"), Attr(n_real, self)>>]

\* A string iterates over its characters, themselves strings.
StrObj(chars) ==
    [Plain("str") EXCEPT
        !.attrs = <<Attr(n_class, "str"), Attr(n_upper, "str.upper")>>,
        !.iterable = TRUE, !.elems = chars]

TupleObj(elems) ==
    [Plain("tuple") EXCEPT
        !.attrs = <<Attr(n_class, "tuple"), Attr(n_count, "count")>>,
        !.iterable = TRUE, !.elems = elems]

ListObj(elems) ==
    [Plain("list") EXCEPT
        !.attrs = <<Attr(n_class, "list"), Attr(n_count, "count")>>,
        !.hashable = FALSE, !.iterable = TRUE, !.elems = elems]

SetObj(elems) ==
    [Plain("set") EXCEPT
        !.attrs = <<Attr(n_class, "set"), Attr(n_copy, "copy")>>,
        !.hashable = FALSE, !.iterable = TRUE, !.elems = elems]

DictObj(items) ==
    [Plain("dict") EXCEPT
        !.attrs = <<Attr(n_class, "dict"), Attr(n_copy, "copy")>>,
        !.hashable = FALSE, !.iterable = TRUE, !.elems = items]

\* A callable with a __name__; signature is what inspect.signature gives,
\* "ValueError" when it raises that.
Function(type, signature) ==
    [Plain(type) EXCEPT !.callable = TRUE, !.signature = signature,
                        !.has_name = TRUE]

\* DataObject(**kwargs) of the tests: dir() is sorted, the class variables
\* and the _keys tuple are reported along with the keyword attributes.
DataObject(keys, kwargs) ==
    [Plain("DataObject") EXCEPT
        !.attrs = <<Attr(n_class, "DataObject"), Attr(n_init, "__init__"),
                    Attr(n_keys, keys), Attr(n_private_class_var, "1923")>>
                  \o kwargs
                  \o <<Attr(n_public_class_var, "1719")>>]

Objects ==
    [a \in {"type", "int", "str", "tuple", "list", "set", "dict",
            "NoneType", "DataObject", "function", "method",
            "builtin_function_or_method", "_DeepVarsErrorObject",
            "DataObjectWithError", "BrokenDir"} |-> Class]
    @@ ("None" :> Plain("NoneType"))
    @@ ("17" :> IntObj("17")) @@ ("19" :> IntObj("19")) @@ ("23" :> IntObj("23"))
    @@ ("1719" :> IntObj("1719")) @@ ("1923" :> IntObj("1923"))
    @@ ("'a'" :> StrObj(<<Elem("'a'")>>))
    @@ ("'b'" :> StrObj(<<Elem("'b'")>>))
    @@ ("'c'" :> StrObj(<<Elem("'c'")>>))
    @@ ("'f'" :> StrObj(<<Elem("'f'")>>))
    @@ ("'o'" :> StrObj(<<Elem("'o'")>>))
    @@ ("'r'" :> StrObj(<<Elem("'r'")>>))
    @@ ("'foo'" :> StrObj(<<Elem("'f'"), Elem("'o'"), Elem("'o'")>>))
    @@ ("'bar'" :> StrObj(<<Elem("'b'"), Elem("'a'"), Elem("'r'")>>))
    @@ ("str.upper" :> Function("builtin_function_or_method", "upper()"))
    @@ ("count" :> Function("builtin_function_or_method", "count(value, /)"))
    @@ ("copy" :> Function("builtin_function_or_method", "copy()"))
    @@ ("dir" :> Function("builtin_function_or_method", "ValueError"))
    @@ ("__init__" :> Function("method", "__init__(**kwargs: Any) -> None"))
    @@ ("error_object" :> Plain("_DeepVarsErrorObject"))
    \* data = DataObject(a=17, b="foo", c=DataObject(a=19, b="bar",
    \*                                              c=DataObject(a=23)))
    @@ ("data" :> DataObject("data._keys",
            <<Attr(n_a, "17"), Attr(n_b, "'foo'"), Attr(n_c, "data.c")>>))
    @@ ("data.c" :> DataObject("data.c._keys",
            <<Attr(n_a, "19"), Attr(n_b, "'bar'"), Attr(n_c, "data.c.c")>>))
    @@ ("data.c.c" :> DataObject("data.c.c._keys", <<Attr(n_a, "23")>>))
    @@ ("data._keys" :> TupleObj(<<Elem("'a'"), Elem("'b'"), Elem("'c'")>>))
    @@ ("data.c._keys" :> TupleObj(<<Elem("'a'"), Elem("'b'"), Elem("'c'")>>))
    @@ ("data.c.c._keys" :> TupleObj(<<Elem("'a'")>>))
    \* x = [17]; x.append(x)
    @@ ("x" :> ListObj(<<Elem("17"), Elem("x")>>))
    \* {"_a": 19, "b": data.c.c}
    @@ ("d" :> DictObj(<<Item(n__a, "'a'", "19"),
                      Item(n_b, "'b'", "data.c.c")>>))
    \* {17, ("a",)}  and  {17, DataObject(a=23)}
    @@ ("s" :> SetObj(<<Elem("17"), Elem("data.c.c._keys")>>))
    @@ ("su" :> SetObj(<<Elem("17"), Elem("data.c.c")>>))
    \* t = (DataObject(a=23),)  and  {[].count, t}
    @@ ("t" :> TupleObj(<<Elem("data.c.c")>>))
    @@ ("sf" :> SetObj(<<Elem("count"), Elem("t")>>))
    \* DataObjectWithError: __dir__ reports an attribute that does not exist
    @@ ("e" :> [Plain("DataObjectWithError") EXCEPT
                   !.attrs = <<Attr(n_a, "17"),
                               Attr(n_non_existing_attribute, Missing)>>])
    \* BrokenDir: __dir__ raises
    @@ ("broken" :> [Plain("BrokenDir") EXCEPT !.dir_raises = TRUE])
    \* DataObject(a=17, b=BrokenDir())
    @@ ("wb" :> DataObject("data.c.c._keys",
            <<Attr(n_a, "17"), Attr(n_b, "broken")>>))
    \* DataObject(a=17, specially_detected=<a true value>)
    @@ ("sd" :> DataObject("data.c.c._keys",
            <<Attr(n_a, "17"), Attr(n_specially_detected, "17")>>))

\* isinstance(obj, type)
IsType(o) == Objects[o].type = "type"
\* getattr(obj, name, None) is not None, for a name dir() need not report.
HasAttr(o, name) ==
    \E i \in 1..Len(Objects[o].attrs) :
        Objects[o].attrs[i].name = name /\ Objects[o].attrs[i].ref /= Missing

\* =================================================================
\* Classification and dispatch
\* =================================================================
StartsWith(s, prefix) ==
    Len(s) >= Len(prefix) /\ SubSeq(s, 1, Len(prefix)) = prefix
EndsWith(s, suffix) ==
    Len(s) >= Len(suffix)
    /\ SubSeq(s, Len(s) - Len(suffix) + 1, Len(s)) = suffix

\* special_type_detector(name, obj) for the detectors in use. The detector
\* of the tests: "specially_detected" when the object has a true attribute
\* of that name (every attribute value of Objects is true). A second one,
\* lambda name, obj: "magic" if isinstance(obj, (int, DataObject)) else None.
Detect(detector, name, o) ==
    IF detector = "_special_detector" /\ HasAttr(o, n_specially_detected)
    THEN "specially_detected"
    ELSE IF /\ detector = "_magic_detector"
            /\ Objects[o].type \in {"int", "DataObject"}
    THEN "magic"
    ELSE None

\* The first result of the detectors from position i on that is not None.
RECURSIVE FirstDetected(_, _, _, _)
FirstDetected(detectors, i, name, o) ==
    IF i > Len(detectors) THEN None
    ELSE IF Detect(detectors[i], name, o) /= None
    THEN Detect(detectors[i], name, o)
    ELSE FirstDetected(detectors, i + 1, name, o)

\* The built-in rule, the `except StopIteration` branch.
BuiltinSpecialType(name, o) ==
    IF /\ name.str
       /\ Len(name.chars) > 4
       /\ StartsWith(name.chars, <<"_", "_">>)
       /\ EndsWith(name.chars, <<"_", "_">>)
    THEN "magic"
    ELSE IF name.str /\ Len(name.chars) > 1 /\ StartsWith(name.chars, <<"_">>)
    THEN "private"
    ELSE IF Objects[o].callable /\ ~IsType(o)
    THEN "callable"
    ELSE None

\* Mutation of get_special_type: the built-in rule is asked first.
get_special_type_BuiltinFirst(detectors, name, o) ==
    IF BuiltinSpecialType(name, o) /= None
    THEN BuiltinSpecialType(name, o)
    ELSE FirstDetected(detectors, 1, name, o)

get_special_type(detectors, name, o) ==
    IF FirstDetected(detectors, 1, name, o) /= None
    THEN FirstDetected(detectors, 1, name, o)
    ELSE BuiltinSpecialType(name, o)

\* Mutation of default_handler: objects of unregistered types are shown.
default_handler_Show == DeepVarsHandlerShow

default_handler == DeepVarsHandlerProcess

\* DeepVarsHandlerHide.fallback_handler
fallback_handler == None

\* env: the registry and the detector list the traversal reads.
get_handler(env, name, o) ==
    LET special == get_special_type(env.detectors, name, o)
        handler ==
            IF special /= None /\ StrKey(special) \in DOMAIN env.handlers
            THEN env.handlers[StrKey(special)]
            ELSE None
    IN  IF handler /= None THEN handler
        ELSE IF TypeKey(Objects[o].type) \in DOMAIN env.handlers
        THEN env.handlers[TypeKey(Objects[o].type)]
        ELSE default_handler

\* handler.use_obj(obj, deep_vars_args): only Hide answers False.
use_obj(handler) == handler /= DeepVarsHandlerHide

\* Mutation of allow_filtering: every container handler filters.
allow_filtering_Always(handler) == TRUE

\* Mutation of allow_filtering: Process does not override the class variable.
allow_filtering_Never(handler) == FALSE

\* The class variable allow_filtering of a container handler.
allow_filtering(handler) == handler = DeepVarsHandlerProcess

\* =================================================================
\* Traversal
\* =================================================================
\* st threads what a traversal changes as it goes: the handler cache, and
\* (history) the number of handler.process calls made so far, the handler
\* types they were made on, the max_depth values deep_vars was called with
\* and the handler types Hide delegated to.
Out(ret, st) == [ret |-> ret, st |-> st]
\* get_handler_cache: the instance is created on first use.
Cached(st, handler) == [st EXCEPT !.cache = @ \union {handler}]
\* handler.process(obj, deep_vars_args) is entered (history): one call
\* more, and the handler is among those an object was dispatched to.
Called(st, handler) ==
    [st EXCEPT !.ncalls = @ + 1, !.dispatched = @ \union {handler}]
\* deep_vars is entered with max_depth (history).
Entered(st, max_depth) == [st EXCEPT !.depths = @ \union {max_depth}]
\* Hide hands its object over to handler (history).
Delegated(st, handler) == [st EXCEPT !.delegated = @ \union {handler}]
\* An exception other than DeepVarsInvalidHandlerError inside process_obj.
Exc(exc) == [k |-> "exc", id |-> "None", text |-> exc, items |-> <<>>]

\* Mutation of DepthExhausted: the test is `< 0`.
DepthExhausted_Strict(max_depth) == max_depth < 0

\* if max_depth <= 0
DepthExhausted(max_depth) == max_depth <= 0
\* Mutation of NextDepth: a nested call is given half the depth.
NextDepth_Halved(max_depth) == max_depth \div 2

\* Mutation of NextDepth: a nested call is given two levels less.
NextDepth_Two(max_depth) == max_depth - 2

\* {"max_depth": max_depth - 1, ...}
NextDepth(max_depth) == max_depth - 1

\* Mutation of Hashable: anything can be a member of a set.
Hashable_Always(r) == TRUE

\* hash(value) works
RECURSIVE Hashable(_)
Hashable(r) ==
    CASE r.k = "obj" -> Objects[r.id].hashable
      [] r.k = "str" -> TRUE
      [] r.k = "tuple" -> \A i \in 1..Len(r.items) : Hashable(r.items[i].val)
      [] OTHER -> FALSE

\* Adding to the container under construction; a set keeps one of equals.
Add(kind, acc, item) ==
    IF kind = "set" /\ \E i \in 1..Len(acc) : acc[i].val = item.val
    THEN acc
    ELSE Append(acc, item)

Entry(key, use_name, obj_name, ref) ==
    [key |-> key, use_name |-> use_name, obj_name |-> obj_name, ref |-> ref]

\* for name in dir(obj): (name, self.get_sub_obj(obj, name))
ProcessEntries(o) ==
    [i \in 1..Len(Objects[o].attrs) |->
        LET a == Objects[o].attrs[i]
        IN  Entry(a.name, a.name, a.name,
                  IF a.ref = Missing THEN "error_object" ELSE a.ref)]

\* for value in obj: iterating a dict gives its keys
LoopEntries(o) ==
    [i \in 1..Len(Objects[o].elems) |->
        LET e == Objects[o].elems[i]
        IN  Entry(NoName, NoName, NoName,
                  IF Objects[o].type = "dict" THEN e.keyref ELSE e.ref)]

\* for name, value in obj.items()
LoopDictEntries(o) ==
    [i \in 1..Len(Objects[o].elems) |->
        LET e == Objects[o].elems[i]
        IN  Entry(e.key, e.key, NoName, e.ref)]

\* The one element of a singleton set. {F(v) : v \in {e}} evaluates e once
\* and names its value v: results of nested calls are bound this way.
The(S) == CHOOSE x \in S : TRUE

RECURSIVE deep_vars(_, _, _, _, _, _)
RECURSIVE process(_, _, _, _, _)
RECURSIVE process_obj(_, _, _, _, _)
RECURSIVE Comprehension(_, _, _, _, _, _, _, _)

\* DeepVars.deep_vars(obj, max_depth, _obj_name, _top_level)
deep_vars(env, o, max_depth, obj_name, top_level, st) ==
    IF DepthExhausted(max_depth) THEN Out(Obj(o), Entered(st, max_depth))
    ELSE The({ The({ IF IsRaised(r.ret) /\ top_level
                     THEN Out(Raised("NotImplementedError"), r.st)
                     ELSE r :
                     r \in {process(env, handler, o, NextDepth(max_depth),
                                    Cached(Entered(st, max_depth),
                                           handler))} }) :
               handler \in {get_handler(env, obj_name, o)} })

\* Mutation of process: a bare `except Exception: return obj`, the
\* invalid-handler error included.
process_SwallowsAll(env, handler, o, max_depth, st) ==
    The({ IF r.ret.k \in {"exc", "raise"} THEN Out(Obj(o), r.st) ELSE r :
          r \in {process_obj(env, handler, o, max_depth,
                             Called(st, handler))} })

\* Mutation of process: no except clause, whatever process_obj raises
\* goes up to the caller.
process_Propagates(env, handler, o, max_depth, st) ==
    process_obj(env, handler, o, max_depth, Called(st, handler))

\* DeepVarsHandler.process: everything but the invalid-handler error is
\* swallowed and the object returned as it is.
process(env, handler, o, max_depth, st) ==
    The({ IF r.ret.k = "exc" THEN Out(Obj(o), r.st) ELSE r :
          r \in {process_obj(env, handler, o, max_depth,
                             Called(st, handler))} })

\* One element of a comprehension, for an entry that passed the usage
\* test: the nested deep_vars, and its value added to the container. `out`
\* is the container built so far and the state the entries before left.
Element(env, handler, kind, e, max_depth, out) ==
    The({ IF IsRaised(r.ret) THEN r
          ELSE IF kind = "set" /\ ~Hashable(r.ret)
          THEN Out(Exc("TypeError"), r.st)
          ELSE Out(Built(kind, Add(kind, out.ret.items,
                                   [key |-> e.key, val |-> r.ret])),
                   r.st) :
          r \in {deep_vars(env, e.ref, max_depth, e.obj_name, FALSE,
                           out.st)} })

\* One iteration of a comprehension: the usage test (use_subobj), then the
\* element. An exception raised by an earlier entry has ended the loop.
Iteration(env, handler, kind, e, max_depth, out) ==
    IF out.ret.k \in {"raise", "exc"} THEN out
    ELSE IF ~allow_filtering(handler)
    THEN Element(env, handler, kind, e, max_depth, out)
    ELSE The({ IF use_obj(sub)
               THEN Element(env, handler, kind, e, max_depth,
                            Out(out.ret, Cached(out.st, sub)))
               ELSE Out(out.ret, Cached(out.st, sub)) :
               sub \in {get_handler(env, e.use_name, e.ref)} })

\* The comprehension of a container handler over entries lo..hi, in their
\* order: the first half of the range, then the second half from where
\* the first one ended.
Comprehension(env, handler, kind, entries, lo, hi, max_depth, out) ==
    IF lo > hi THEN out
    ELSE IF lo = hi
    THEN Iteration(env, handler, kind, entries[lo], max_depth, out)
    ELSE The({ Comprehension(env, handler, kind, entries,
                             (lo + hi) \div 2 + 1, hi, max_depth, left) :
               left \in {Comprehension(env, handler, kind, entries,
                                       lo, (lo + hi) \div 2, max_depth,
                                       out)} })

\* DeepVarsHandlerHide.process_obj once the handler to delegate to is known.
Delegate(env, first, o, max_depth, st) ==
    The({ process(env, chosen, o, max_depth,
                  Delegated(Cached(Cached(st, first), chosen), chosen)) :
          chosen \in {IF first = DeepVarsHandlerHide
                      THEN DeepVarsHandlerShow
                      ELSE first} })

\* process_obj of each handler class.
process_obj(env, handler, o, max_depth, st) ==
    CASE handler = DeepVarsHandler ->
            Out(Raised("DeepVarsInvalidHandlerError"), st)
      [] handler = DeepVarsHandlerShow ->
            Out(Obj(o), st)
      [] handler = DeepVarsHandlerCallable ->
            IF ~Objects[o].callable THEN Out(Obj("error_object"), st)
            ELSE IF Objects[o].signature = "ValueError"
            THEN Out(Str("<built-in function>"), st)
            ELSE IF ~Objects[o].has_name
            THEN Out(Exc("AttributeError"), st)
            ELSE Out(Str(Objects[o].signature), st)
      [] handler = DeepVarsHandlerHide ->
            The({ Delegate(env, first, o, max_depth, st) :
                  first \in {IF fallback_handler = None
                             THEN get_handler(env, NoName, o)
                             ELSE fallback_handler} })
      [] handler = DeepVarsHandlerLoop ->
            IF ~Objects[o].iterable THEN Out(Exc("TypeError"), st)
            ELSE IF Objects[o].type = "set"
            THEN The({ IF r.ret.k = "exc" /\ r.ret.text = "TypeError"
                       THEN Out(Obj(o), r.st)
                       ELSE r :
                       r \in {Comprehension(env, handler, "set",
                                            LoopEntries(o), 1,
                                            Len(LoopEntries(o)), max_depth,
                                            Out(Built("set", <<>>), st))} })
            ELSE The({ Comprehension(env, handler, kind, LoopEntries(o),
                                     1, Len(LoopEntries(o)), max_depth,
                                     Out(Built(kind, <<>>), st)) :
                       kind \in {IF Objects[o].type = "tuple"
                                 THEN "tuple"
                                 ELSE "list"} })
      [] handler = DeepVarsHandlerLoopDict ->
            IF Objects[o].type /= "dict" THEN Out(Exc("AttributeError"), st)
            ELSE Comprehension(env, handler, "dict", LoopDictEntries(o),
                               1, Len(LoopDictEntries(o)), max_depth,
                               Out(Built("dict", <<>>), st))
      [] handler = DeepVarsHandlerProcess ->
            IF Objects[o].dir_raises THEN Out(Exc("NotImplementedError"), st)
            ELSE Comprehension(env, handler, "dict", ProcessEntries(o),
                               1, Len(ProcessEntries(o)), max_depth,
                               Out(Built("dict", <<>>), st))

\* ------------------------------------- deep_vars(obj, max_depth), the call
\* The registry and the detector list a call reads, and the traversal
\* state it starts from.
Env == [handlers |-> handlers, detectors |-> special_type_detectors]
FreshSt ==
    [cache |-> handlers_cache, ncalls |-> 0, dispatched |-> {},
     depths |-> {}, delegated |-> {}]

\* DeepVars.deep_vars(obj, max_depth, _obj_name) called from outside.
Traverse(o, max_depth, obj_name) ==
    \E r \in {deep_vars(Env, o, max_depth, obj_name, TRUE, FreshSt)} :
        /\ handlers_cache' = r.st.cache
        /\ last' = [NoCall EXCEPT
              !.op = "deep_vars", !.obj = o, !.obj_name = obj_name,
              !.max_depth = max_depth,
              !.outcome = IF IsRaised(r.ret) THEN r.ret.text ELSE "ok",
              !.ret = IF IsRaised(r.ret) THEN Obj("None") ELSE r.ret,
              !.ncalls = r.st.ncalls,
              !.dispatched = r.st.dispatched,
              !.depths = r.st.depths,
              !.delegated = r.st.delegated]
        /\ UNCHANGED <<dicts, bookmarks, special_type_detectors, taken,
                       nregister>>

\* special_type_detectors.append(detector) and special_type_detectors.pop()
AppendDetector(detector) ==
    /\ Len(special_type_detectors) < 2
    /\ \A i \in 1..Len(special_type_detectors) :
          special_type_detectors[i] /= detector
    /\ special_type_detectors' = Append(special_type_detectors, detector)
    /\ last' = [NoCall EXCEPT !.op = "special_type_detectors.append"]
    /\ UNCHANGED <<dicts, bookmarks, handlers_cache, taken, nregister>>

PopDetector ==
    /\ Len(special_type_detectors) > 0
    /\ special_type_detectors' =
           SubSeq(special_type_detectors, 1, Len(special_type_detectors) - 1)
    /\ last' = [NoCall EXCEPT !.op = "special_type_detectors.pop"]
    /\ UNCHANGED <<dicts, bookmarks, handlers_cache, taken, nregister>>

\* ------------------------------------ the traversal machine (SpecTraverse)
\* The objects deep_vars is called on from outside.
Roots == {"data", "17", "x", "su", "d", "sf", "broken", "wb"}

NextTraverse ==
    \/ \E o \in Roots, max_depth \in 0..MaxDepth :
          Traverse(o, max_depth, NoName)
    \/ Traverse("data", 0 - 1, NoName)
    \/ \E max_depth \in 1..MaxDepth : Traverse("17", max_depth, n__a)
    \/ /\ set_handlers(DeepVarsHandler, {TypeKey("int")})
       /\ UNCHANGED nregister
    \/ reset_handlers(DEFAULT_BOOKMARK, "False")
    \/ AppendDetector("_special_detector")
    \/ PopDetector

SpecTraverse == Init /\ [][NextTraverse]_vars

\* ------------------------------------- the dispatch machine (SpecDispatch)
\* deep_vars under changing detector lists, with the tag of the first
\* detector registered or not.
DispatchRoots == {"sd", "data", "x", "d"}

NextDispatch ==
    \/ \E o \in DispatchRoots, max_depth \in 0..MaxDepth :
          Traverse(o, max_depth, NoName)
    \/ /\ set_handlers(DeepVarsHandlerShow, {StrKey("specially_detected")})
       /\ UNCHANGED nregister
    \/ reset_handlers(DEFAULT_BOOKMARK, "False")
    \/ AppendDetector("_special_detector")
    \/ special_type_detectors /= <<>> /\ AppendDetector("_magic_detector")
    \/ PopDetector

SpecDispatch == Init /\ [][NextDispatch]_vars

\* =================================================================
\* Properties of the registry and of the bookmark store
\* =================================================================
\* What the store holds, by value: the names in order, each with its snapshot.
StoreView(bm, ds) ==
    [i \in 1..Len(bm) |-> [name |-> bm[i].name, snapshot |-> ds[bm[i].ref]]]

\* A sequence without its element at position idx.
Without(seq, idx) == SubSeq(seq, 1, idx - 1) \o SubSeq(seq, idx + 1, Len(seq))

RestoreDone == last.op = "reset_handlers" /\ last.outcome = "ok"

\* The name of the bookmark a restore called with `name` selects in store bm.
SelectedName(bm, name) == IF name = None THEN bm[Len(bm)].name ELSE name

\* Every bookmark holds the registry that was live when it was taken.
BookmarksHoldWhatWasTaken ==
    \A i \in 1..Len(bookmarks) :
        dicts[bookmarks[i].ref] = taken[bookmarks[i].name]

\* C2 (restore fidelity): through any sequence of register, snapshot, restore
\* and clear_bookmarks calls every bookmark keeps holding the registry that
\* was live when it was taken, and a restore that does not fail leaves the
\* live registry equal to the registry taken under the selected bookmark: the
\* last one of the store when name is omitted, the one named `name` otherwise.
C2_RestoreFidelity ==
    [][ /\ BookmarksHoldWhatWasTaken'
        /\ RestoreDone' =>
              handlers' = taken[SelectedName(bookmarks, last'.name)] ]_vars

\* A named snapshot other than the newest was restored after the registry
\* had moved on, with snapshots of different registries in the store.
C2_Witness ==
    /\ RestoreDone /\ last.name = "name" /\ last.removed = None
    /\ Len(bookmarks) = 3 /\ bookmarks[3].name /= "name"
    /\ handlers /= DefaultHandlers
    /\ \E i \in 1..Len(bookmarks) : dicts[bookmarks[i].ref] /= handlers

\* C3 (the store is never empty): whatever snapshot, restore (failing or
\* not, with any name and any delete) and clear_bookmarks calls were made,
\* the bookmark store holds at least one bookmark.
C3_StoreNeverEmpty == Len(bookmarks) >= 1

\* restore(delete=True) on a store of one bookmark removed nothing.
C3_Witness ==
    /\ RestoreDone /\ last.delete = "True" /\ last.nbefore = 1
    /\ last.removed = None /\ Len(bookmarks) = 1

\* C4 (the built-in-defaults bookmark is permanent): after any sequence of
\* public operations the bookmark named DEFAULT_BOOKMARK is in the store and
\* holds the built-in default registry.
C4_DefaultBookmarkPermanent ==
    /\ DEFAULT_BOOKMARK \in BookmarkNames(bookmarks)
    /\ dicts[bookmarks[IndexOf(bookmarks, DEFAULT_BOOKMARK)].ref]
           = DefaultHandlers

C6_ClearKeepsOldest ==
    [][ (last'.op = "clear_bookmarks" /\ last'.outcome = "ok") =>
          /\ StoreView(bookmarks', dicts') = <<StoreView(bookmarks, dicts)[1]>>
          /\ handlers' = handlers ]_vars

\* clear_bookmarks discarded two bookmarks while the live registry differed
\* from the snapshot it kept.
C6_Witness ==
    /\ last.op = "clear_bookmarks" /\ last.nbefore = 3
    /\ Len(bookmarks) = 1
    /\ handlers /= dicts[bookmarks[1].ref]

\* C7 (missing name): restore with a name that is not in the store raises
\* KeyError whatever delete is and whatever the size of the store, and leaves
\* the live registry and the store as they were.
C7_MissingNameFails ==
    [][ ( /\ last'.op = "reset_handlers"
          /\ last'.name /= None
          /\ last'.name \notin BookmarkNames(bookmarks) ) =>
          /\ last'.outcome = "KeyError"
          /\ dicts' = dicts
          /\ bookmarks' = bookmarks ]_vars

\* A restore by a missing name failed with delete=True on a store of three.
C7_Witness ==
    /\ last.op = "reset_handlers" /\ last.outcome = "KeyError"
    /\ last.delete = "True" /\ last.nbefore = 3
    /\ handlers /= DefaultHandlers

\* C8 (registration changes exactly the targeted keys): set_handlers with at
\* least one key sets each given key to the handler type and leaves every
\* other entry alone, and with no key raises ValueError and changes nothing;
\* set_special_handlers sets the handler type on exactly the registered string
\* keys not in skip and set_all_handlers on every registered key, neither
\* adding nor removing a key.
C8_RegistrationFrame ==
    [][ /\ (last'.op = "set_handlers" /\ last'.keys /= {}) =>
              /\ last'.outcome = "ok"
              /\ DOMAIN handlers' = (DOMAIN handlers) \union last'.keys
              /\ \A k \in DOMAIN handlers' :
                    handlers'[k] =
                        IF k \in last'.keys THEN last'.value ELSE handlers[k]
        /\ (last'.op = "set_handlers" /\ last'.keys = {}) =>
              /\ last'.outcome = "ValueError"
              /\ handlers' = handlers
        /\ last'.op = "set_special_handlers" =>
              /\ DOMAIN handlers' = DOMAIN handlers
              /\ \A k \in DOMAIN handlers :
                    handlers'[k] =
                        IF k[1] = "str" /\ k[2] \notin last'.skip
                        THEN last'.value ELSE handlers[k]
        /\ last'.op = "set_all_handlers" =>
              /\ DOMAIN handlers' = DOMAIN handlers
              /\ \A k \in DOMAIN handlers : handlers'[k] = last'.value
      ]_vars

\* set_special_handlers with a skip changed a string key and left the skipped
\* key and a type key that was registered by hand as they were.
C8_Witness ==
    /\ last.op = "set_special_handlers" /\ last.outcome = "ok"
    /\ last.skip = {"callable"} /\ last.value = DeepVarsHandlerShow
    /\ handlers[StrKey("magic")] = DeepVarsHandlerShow
    /\ handlers[StrKey("callable")] = DeepVarsHandlerCallable
    /\ TypeKey("DataObject") \in DOMAIN handlers
    /\ handlers[TypeKey("DataObject")] = DeepVarsHandlerHide

\* =================================================================
\* Properties of the traversal
\* =================================================================
TraverseDone == last.op = "deep_vars"

\* The last call was deep_vars under the built-in registry, no detectors.
DefaultTraverseDone ==
    /\ TraverseDone
    /\ handlers = DefaultHandlers
    /\ special_type_detectors = <<>>

\* C1 (identity law): deep_vars(o, max_depth) with max_depth <= 0 returns the
\* very object o, calls no handler, and leaves the registry, the handler
\* cache and the bookmark store as they were, whatever the registry and the
\* detector list are.
C1_IdentityLaw ==
    [][ (last'.op = "deep_vars" /\ last'.max_depth <= 0) =>
          /\ last'.outcome = "ok"
          /\ last'.ret = Obj(last'.obj)
          /\ last'.ncalls = 0
          /\ dicts' = dicts
          /\ bookmarks' = bookmarks
          /\ handlers_cache' = handlers_cache ]_vars

\* deep_vars(data, 0) was called with a changed registry and a detector in
\* place, and the handler an expansion of data would need was not created.
C1_Witness ==
    /\ TraverseDone /\ last.obj = "data" /\ last.max_depth = 0
    /\ handlers /= DefaultHandlers
    /\ Len(special_type_detectors) = 1
    /\ handlers_cache /= {}
    /\ DeepVarsHandlerProcess \notin handlers_cache

IsMagicName(n) ==
    /\ Len(n.chars) > 4
    /\ n.chars[1] = "_" /\ n.chars[2] = "_"
    /\ n.chars[Len(n.chars) - 1] = "_" /\ n.chars[Len(n.chars)] = "_"
IsPrivateName(n) == Len(n.chars) > 1 /\ n.chars[1] = "_"
IsPublicAttr(a) == ~IsMagicName(a.name) /\ ~IsPrivateName(a.name)
PublicAttrs(o) == SelectSeq(Objects[o].attrs, IsPublicAttr)

\* res is what the depth rule gives for object o reached through `hops`
\* attribute hops when the top call had max_depth d.
RECURSIVE DepthShape(_, _, _, _)
DepthShape(res, o, hops, d) ==
    IF hops = d \/ Objects[o].type \in {"int", "str"} THEN res = Obj(o)
    ELSE IF Objects[o].type = "DataObject"
    THEN /\ res.k = "dict"
         /\ Len(res.items) = Len(PublicAttrs(o))
         /\ \A i \in 1..Len(res.items) :
               /\ res.items[i].key = PublicAttrs(o)[i].name
               /\ ~IsMagicName(res.items[i].key)
               /\ ~IsPrivateName(res.items[i].key)
               /\ DepthShape(res.items[i].val, PublicAttrs(o)[i].ref,
                             hops + 1, d)
    ELSE TRUE

\* C9 (depth semantics under the default registry): for plain objects nested
\* through attributes, deep_vars(obj, d) with d >= 1 replaces by a mapping of
\* names to values exactly the objects reached through fewer than d attribute
\* hops, returns every object reached through exactly d hops as the identical
\* original, and no magic or private attribute name is a key.
C9_DepthSemantics ==
    ( /\ DefaultTraverseDone
      /\ last.max_depth >= 1
      /\ Objects[last.obj].type = "DataObject" ) =>
        /\ last.outcome = "ok"
        /\ DepthShape(last.ret, last.obj, 0, last.max_depth)

\* deep_vars(data, 2): data and data.c became mappings, data.c.c, two hops
\* down, is the original object.
C9_Witness ==
    /\ DefaultTraverseDone /\ last.obj = "data" /\ last.max_depth = 2
    /\ last.ret.k = "dict"
    /\ \E i \in 1..Len(last.ret.items) :
          /\ last.ret.items[i].key = n_c
          /\ last.ret.items[i].val.k = "dict"
          /\ \E j \in 1..Len(last.ret.items[i].val.items) :
                /\ last.ret.items[i].val.items[j].key = n_c
                /\ last.ret.items[i].val.items[j].val = Obj("data.c.c")

\* The mapping res has, under key `name`, a value v with P(v).
HasValue(res, name, P(_)) ==
    /\ res.k = "dict"
    /\ \E i \in 1..Len(res.items) :
          res.items[i].key = name /\ P(res.items[i].val)

IsNestedObject(v) == v = Obj("data.c")
HasA19(v) == v = Obj("19")
IsExpandedNested(v) == HasValue(v, n_a, HasA19)

\* The example object of the specification, traversed under the defaults.
ExampleTraversed ==
    DefaultTraverseDone /\ last.obj = "data" /\ last.outcome = "ok"

\* C10 as stated: for obj with a=17, b="foo" and c a nested object with a=19,
\* deep_vars(obj, 2) returns a mapping in which c is still the nested object,
\* and 3 is the first depth at which c is a mapping containing a=19.
C10_SpecExampleAsStated ==
    ExampleTraversed =>
        /\ last.max_depth \in {1, 2} =>
              HasValue(last.ret, n_c, IsNestedObject)
        /\ last.max_depth >= 3 =>
              HasValue(last.ret, n_c, IsExpandedNested)

\* C10 (amended): deep_vars(obj, 1) returns a mapping in which c is still
\* the nested object, and 2 is the first depth at which c is a mapping
\* containing a=19.
C10_SpecExample ==
    ExampleTraversed =>
        /\ last.max_depth = 1 =>
              HasValue(last.ret, n_c, IsNestedObject)
        /\ last.max_depth >= 2 =>
              HasValue(last.ret, n_c, IsExpandedNested)

\* deep_vars(obj, 2) was called on the example and c came back expanded.
C10_Witness ==
    /\ ExampleTraversed /\ last.max_depth = 2
    /\ HasValue(last.ret, n_c, IsExpandedNested)

\* ------------------------------------------------- C11: growing max_depth
\* The roots whose object graph has no cycle.
AcyclicRoots == Roots \ {"x"}

\* What deep_vars(o, n) returns in the current configuration.
At(o, n) == deep_vars(Env, o, n, NoName, TRUE, FreshSt).ret

Containers == {"list", "tuple", "set", "dict"}

\* A result up to ==: a list, tuple, set or dict object equals a container
\* built from equal elements; any other object equals only itself.
RECURSIVE Value(_)
Value(r) ==
    IF r.k = "obj" /\ Objects[r.id].type \in Containers
    THEN Built(Objects[r.id].type,
               [i \in 1..Len(Objects[r.id].elems) |->
                   [key |-> Objects[r.id].elems[i].key,
                    val |-> Value(Obj(Objects[r.id].elems[i].ref))]])
    ELSE IF r.k \in Containers
    THEN Built(r.k, [i \in 1..Len(r.items) |->
                        [key |-> r.items[i].key,
                         val |-> Value(r.items[i].val)]])
    ELSE r

\* Everything value a shows expanded, value b shows expanded too. Inside
\* sets the comparison is made only when insets is TRUE.
RECURSIVE Refines(_, _, _)
Refines(a, b, insets) ==
    IF a.k = "obj" THEN TRUE
    ELSE IF a.k = "set" /\ ~insets THEN b.k = "set"
    ELSE IF a.k \in Containers
    THEN /\ b.k = a.k
         /\ Len(b.items) = Len(a.items)
         /\ \A i \in 1..Len(a.items) :
               /\ b.items[i].key = a.items[i].key
               /\ Refines(a.items[i].val, b.items[i].val, insets)
    ELSE b = a

Max(S) == CHOOSE m \in S : \A n \in S : n <= m

\* The number of levels below which nothing of o is left to expand under
\* the default registry: int and str are shown, a callable becomes its
\* signature, a container or a plain object is expanded element by element.
RECURSIVE Height(_)
Height(o) ==
    IF Objects[o].type \in {"int", "str", "NoneType", "type"} THEN 0
    ELSE IF Objects[o].callable THEN 1
    ELSE IF Objects[o].type \in Containers
    THEN 1 + Max({0} \union {Height(Objects[o].elems[i].ref) :
                                 i \in 1..Len(Objects[o].elems)})
    ELSE 1 + Max({0} \union {Height(PublicAttrs(o)[i].ref) :
                                 i \in 1..Len(PublicAttrs(o))})

\* deep_vars(o, N) returned, o acyclic, N >= 0, default registry.
GrowingDepthCase ==
    /\ DefaultTraverseDone /\ last.outcome = "ok"
    /\ last.obj \in AcyclicRoots
    /\ last.max_depth >= 0

\* C11 as stated: every sub-object deep_vars(o, N) shows expanded is shown
\* expanded by deep_vars(o, N+1), and once deep_vars(o, N+1) equals
\* deep_vars(o, N) every larger max_depth gives the same result.
C11_MonotoneDepthAsStated ==
    GrowingDepthCase =>
        /\ Refines(Value(last.ret), Value(At(last.obj, last.max_depth + 1)),
                   TRUE)
        /\ Value(At(last.obj, last.max_depth + 1)) = Value(last.ret) =>
              \A m \in (last.max_depth + 2)..(last.max_depth + 3) :
                  Value(At(last.obj, m)) = Value(last.ret)

\* C11 (amended): every sub-object outside of sets that deep_vars(o, N)
\* shows expanded is shown expanded by deep_vars(o, N+1), a set staying a
\* set; and from the nesting height of o on, a larger max_depth gives an
\* equal result (two equal consecutive results below that height do not
\* make a fixed point).
C11_MonotoneDepth ==
    GrowingDepthCase =>
        /\ Refines(Value(last.ret), Value(At(last.obj, last.max_depth + 1)),
                   FALSE)
        /\ last.max_depth >= Height(last.obj) =>
              \A m \in (last.max_depth + 1)..(last.max_depth + 2) :
                  Value(At(last.obj, m)) = Value(last.ret)

\* deep_vars(d, 2) on the dict {"_a": 19, "b": DataObject(a=23)}: the nested
\* object is expanded at the height of d, after depths 0 and 1 gave results
\* equal to d itself.
C11_Witness ==
    /\ GrowingDepthCase /\ last.obj = "d" /\ last.max_depth = 2
    /\ last.max_depth = Height(last.obj)
    /\ Value(At("d", 1)) = Value(At("d", 0))
    /\ Value(last.ret) /= Value(At("d", 1))
    /\ Value(At("d", 3)) = Value(last.ret)

\* ---------------------------------------------- C12: graceful degradation
HandlerTypes ==
    {DeepVarsHandler, DeepVarsHandlerShow, DeepVarsHandlerHide,
     DeepVarsHandlerCallable, DeepVarsHandlerLoop, DeepVarsHandlerLoopDict,
     DeepVarsHandlerProcess}

\* handler.process_obj(o, {"max_depth": d}) raises something other than the
\* invalid-handler error.
Fails(handler, o, d) == process_obj(Env, handler, o, d, FreshSt).ret.k = "exc"

\* No registry entry is the base handler.
NoBaseHandler ==
    \A k \in DOMAIN handlers : handlers[k] /= DeepVarsHandler

C13_InvalidHandlerNeverSwallowed ==
    (TraverseDone /\ DeepVarsHandler \in last.dispatched) =>
        /\ last.outcome = "NotImplementedError"
        /\ last.ret = Obj("None")

\* deep_vars on the set {17, DataObject(a=23)} with int registered to the
\* base handler: the error raised for 17 went through the set branch of
\* Loop, whose except clause catches TypeError only.
C13_Witness ==
    /\ TraverseDone /\ last.obj = "su" /\ last.max_depth = 2
    /\ last.dispatched = {DeepVarsHandlerLoop, DeepVarsHandler}
    /\ last.outcome = "NotImplementedError"

\* ------------------------------------------------------ C14: set fallback
SetObjects == {o \in DOMAIN Objects : Objects[o].type = "set"}

\* A value no set can hold: a dict, a list or a set, built or original, or
\* a tuple with such a value in it.
RECURSIVE Unhashable(_)
Unhashable(v) ==
    \/ v.k \in {"dict", "list", "set"}
    \/ v.k = "obj" /\ Objects[v.id].type \in {"dict", "list", "set"}
    \/ v.k = "tuple" /\ \E i \in 1..Len(v.items) : Unhashable(v.items[i].val)
    \/ /\ v.k = "obj" /\ Objects[v.id].type = "tuple"
       /\ \E i \in 1..Len(Objects[v.id].elems) :
             Unhashable(Obj(Objects[v.id].elems[i].ref))

\* What element i of the set o is transformed into at remaining depth d.
Transformed(o, i, d) ==
    deep_vars(Env, Objects[o].elems[i].ref, d, NoName, FALSE, FreshSt).ret

\* C14 (set fallback): when the Loop handler processes a set with a positive
\* remaining depth and no element raises the invalid-handler error, the
\* result is a new set of the transformed elements if each of them is
\* hashable, and the original set object itself if one of them is not; no
\* error comes out of process.
C14_SetFallback ==
    (TraverseDone /\ last.max_depth >= 1) =>
        \A o \in SetObjects :
            LET d == last.max_depth - 1
                n == Len(Objects[o].elems)
                res == process(Env, DeepVarsHandlerLoop, o, d, FreshSt).ret
            IN  (\A i \in 1..n : ~IsRaised(Transformed(o, i, d))) =>
                    IF \E i \in 1..n : Unhashable(Transformed(o, i, d))
                    THEN res = Obj(o)
                    ELSE /\ res.k = "set"
                         /\ {res.items[j].val : j \in 1..Len(res.items)}
                                = {Transformed(o, i, d) : i \in 1..n}
                         /\ \A j, k \in 1..Len(res.items) :
                               res.items[j].val = res.items[k].val => j = k

\* deep_vars on {17, DataObject(a=23)}: with max_depth 2 the object became
\* a dict and the call returned the original set, where max_depth 1 had
\* returned a new set of the two elements.
C14_Witness ==
    /\ DefaultTraverseDone /\ last.obj = "su" /\ last.max_depth = 2
    /\ last.outcome = "ok" /\ last.ret = Obj("su")
    /\ Transformed("su", 2, 1).k = "dict"
    /\ At("su", 1) = Built("set", <<[key |-> NoName, val |-> Obj("17")],
                                    [key |-> NoName, val |-> Obj("data.c.c")]>>)

\* ------------------------------------- C15: filtering in Loop and LoopDict
\* The handler the usage test of a container asks for element i of o.
ElementHandler(o, i) ==
    get_handler(Env,
                IF Objects[o].type = "dict" THEN Objects[o].elems[i].key
                                            ELSE NoName,
                Objects[o].elems[i].ref)

\* A list or a dict was rebuilt by Loop or LoopDict.
ContainerRebuilt ==
    /\ TraverseDone /\ last.outcome = "ok" /\ last.max_depth >= 1
    /\ Objects[last.obj].type \in {"list", "dict"}
    /\ last.dispatched \intersect
           {DeepVarsHandlerLoop, DeepVarsHandlerLoopDict} /= {}
    /\ last.ret.k = Objects[last.obj].type

\* The positions of the elements of o that the usage test answers true for.
Used(o) ==
    SelectSeq([i \in 1..Len(Objects[o].elems) |-> i],
              LAMBDA i : use_obj(ElementHandler(o, i)))

\* C15 as stated: Loop and LoopDict leave out of the rebuilt container every
\* element for which the usage test answers false, that is every element
\* dispatched to Hide (a list element classified with no name, a dict item
\* classified with its key as the name).
C15_LoopFiltersAsStated ==
    ContainerRebuilt =>
        /\ Len(last.ret.items) = Len(Used(last.obj))
        /\ \A j \in 1..Len(last.ret.items) :
              last.ret.items[j].key =
                  Objects[last.obj].elems[Used(last.obj)[j]].key

\* C15 (amended): Loop and LoopDict keep every element in the rebuilt
\* container, in order and under its key, whatever handler is dispatched
\* for it, Hide included: the usage test filters in Process only.
C15_LoopKeepsAll ==
    ContainerRebuilt =>
        /\ Len(last.ret.items) = Len(Objects[last.obj].elems)
        /\ \A j \in 1..Len(last.ret.items) :
              last.ret.items[j].key = Objects[last.obj].elems[j].key

\* deep_vars on {"_a": 19, "b": DataObject(a=23)} under the default
\* registry: "_a" is dispatched to Hide and is a key of the result.
C15_Witness ==
    /\ DefaultTraverseDone /\ ContainerRebuilt
    /\ last.obj = "d" /\ last.max_depth = 1
    /\ ElementHandler("d", 1) = DeepVarsHandlerHide
    /\ HasValue(last.ret, n__a, LAMBDA v : v = Obj("19"))

\* ---------------------------------------------------- C16: dispatch order
\* The names and the objects dispatch is examined on.
DispatchNames == {NoName, n_class, n__a, n_a, n_specially_detected}
DispatchObjects ==
    {"17", "'foo'", "data", "sd", "d", "x", "count", "DataObject", "None"}

\* The tag of (name, o): the answer of the first detector, in registration
\* order, that answers; with no detector answering, magic before private
\* before callable.
ExpectedTag(name, o) ==
    LET answering == {i \in 1..Len(special_type_detectors) :
                         Detect(special_type_detectors[i], name, o) /= None}
    IN  IF answering /= {}
        THEN Detect(special_type_detectors[
                        CHOOSE i \in answering : \A j \in answering : i <= j],
                    name, o)
        ELSE IF name.str /\ IsMagicName(name) THEN "magic"
        ELSE IF name.str /\ IsPrivateName(name) THEN "private"
        ELSE IF Objects[o].callable /\ Objects[o].type /= "type"
        THEN "callable"
        ELSE None

ExpectedHandler(name, o) ==
    IF /\ ExpectedTag(name, o) /= None
       /\ StrKey(ExpectedTag(name, o)) \in DOMAIN handlers
    THEN handlers[StrKey(ExpectedTag(name, o))]
    ELSE IF TypeKey(Objects[o].type) \in DOMAIN handlers
    THEN handlers[TypeKey(Objects[o].type)]
    ELSE DeepVarsHandlerProcess

\* C16 (dispatch order): for every (name, object) the handler type used is
\* the registry entry of the tag when there is a tag and it is a registry
\* key, otherwise the entry of the concrete type of the object, otherwise
\* Process; the tag is the first answer of the detectors in registration
\* order and, only when none answers, the built-in rule. A deep_vars call
\* with depth left dispatches its object to that handler.
C16_DispatchOrder ==
    /\ \A name \in DispatchNames, o \in DispatchObjects :
          get_handler(Env, name, o) = ExpectedHandler(name, o)
    /\ (TraverseDone /\ last.max_depth >= 1) =>
          ExpectedHandler(last.obj_name, last.obj) \in last.dispatched

\* deep_vars on DataObject(a=17, specially_detected=...) with both detectors
\* in place and "specially_detected" registered to Show: the first detector
\* decided, neither the second one ("magic") nor, for a private name, the
\* built-in rule; an object without that attribute, for which only the
\* second detector answers, is tagged magic.
C16_Witness ==
    /\ TraverseDone /\ last.obj = "sd" /\ last.max_depth = 1
    /\ special_type_detectors = <<"_special_detector", "_magic_detector">>
    /\ StrKey("specially_detected") \in DOMAIN handlers
    /\ last.dispatched = {DeepVarsHandlerShow}
    /\ last.ret = Obj("sd")
    /\ get_handler(Env, n__a, "sd") = DeepVarsHandlerShow
    /\ get_handler(Env, NoName, "data") = DeepVarsHandlerHide

\* ----------------------------------------- C17: depth-bounded termination
\* The largest number of sub-objects an object has.
Fanout ==
    Max({Len(Objects[o].attrs) : o \in DOMAIN Objects}
        \union {Len(Objects[o].elems) : o \in DOMAIN Objects})

\* C17 (depth-bounded termination): a deep_vars call returns or raises after
\* a bounded number of handler calls, self-referential objects included;
\* every nested deep_vars call receives a max_depth one smaller than that
\* of a call above it and none below 0, so the calls are nested at most
\* max_depth deep; and Hide never delegates to Hide.
C17_DepthBoundedTermination ==
    TraverseDone =>
        /\ last.max_depth \in last.depths
        /\ \A d \in last.depths :
              /\ d <= last.max_depth
              /\ d /= last.max_depth => (d >= 0 /\ d + 1 \in last.depths)
        /\ last.ncalls <=
              IF last.max_depth <= 0 THEN 0 ELSE 2 * Fanout ^ last.max_depth
        /\ DeepVarsHandlerHide \notin last.delegated
        /\ (DeepVarsHandlerHide \in last.dispatched) => last.delegated /= {}

\* deep_vars(x, MaxDepth) on x = [17]; x.append(x): the calls went down
\* through x once per level to max_depth 0 and stopped there.
C17_Witness ==
    /\ DefaultTraverseDone /\ last.obj = "x" /\ last.max_depth = MaxDepth
    /\ last.outcome = "ok"
    /\ last.depths = 0..MaxDepth
    /\ last.ncalls >= MaxDepth
    /\ Objects["x"].elems[2].ref = "x"

====
